---- MODULE Spec2Model ----
(***************************************************************************)
(* A model of icon-finder-rs (src/src/lib.rs): the freedesktop.org icon    *)
(* lookup.  The size matcher (directory_matches_size,                      *)
(* directory_size_distance), the directory prober (lookup_icon), the       *)
(* unthemed prober (lookup_fallback_icon), the theme resolvers             *)
(* (find_icon_helper, find_best_icon_helper) and the two entry points      *)
(* (find_icon, find_best_icon) are pure functions of a theme tree, a       *)
(* request and the set of files that exist; each is an operator computed   *)
(* the way the source computes it, and each action applies one of them.    *)
(*                                                                         *)
(* Sizes and scales are i16.  Arithmetic is two's complement on 16 bits:   *)
(* an operation whose result leaves the range wraps, as the build without  *)
(* overflow checks does (with overflow checks the same operation panics    *)
(* and the call returns nothing).                                          *)
(***************************************************************************)
EXTENDS Integers, Sequences, FiniteSets, TLC

VARIABLES
    user_selected_theme,  \* the Theme given to the call; it owns its parents (inherits)
    files,                \* the paths for which Path::exists() is true
    icon_list,            \* the requested icon names, in the caller's order
    size,                 \* the requested size
    scale,                \* the requested scale
    pc,                   \* "ready", or the name of the function that was called
    result                \* what the call returned

vars == <<user_selected_theme, files, icon_list, size, scale, pc, result>>

---------------------------------------------------------------------------
(* Program constants *)

BASE_DIRECTORIES == <<"~/.icons", "/usr/share/icons", "/usr/local/share/icons">>

ALLOWED_EXTENSIONS == <<"png", "svg", "xpm">>

DEFAULT_THRESHOLD == 2

DEFAULT_SCALE == 1

I16_MAX == 32767

---------------------------------------------------------------------------
(* Option<T>: None is the empty sequence, Some(v) the sequence <<v>> *)

None == <<>>

Some(v) == <<v>>

UnwrapOr(o, d) == IF o = None THEN d ELSE o[1]

---------------------------------------------------------------------------
(* i16 arithmetic *)

Wrap16(x) == ((x + 32768) % 65536) - 32768

Add16(a, b) == Wrap16(a + b)

Sub16(a, b) == Wrap16(a - b)

Mul16(a, b) == Wrap16(a * b)

Abs16(a) == Wrap16(IF a < 0 THEN 0 - a ELSE a)

---------------------------------------------------------------------------
(* Size matcher *)

DirectoryMatchesSizeLooseUpper(theme_directory, icon_size, icon_scale) ==
    IF icon_scale # UnwrapOr(theme_directory.scale, DEFAULT_SCALE)
    THEN FALSE
    ELSE LET min_size == UnwrapOr(theme_directory.min_size, theme_directory.size)
             max_size == UnwrapOr(theme_directory.max_size, theme_directory.size)
             threshold == UnwrapOr(theme_directory.threshold, DEFAULT_THRESHOLD)
         IN  CASE theme_directory.type = "Fixed" ->
                    theme_directory.size = icon_size
               [] theme_directory.type = "Scalable" ->
                    min_size <= icon_size /\ icon_size < max_size
               [] theme_directory.type = "Threshold" ->
                    /\ Sub16(theme_directory.size, threshold) <= icon_size
                    /\ icon_size < Add16(theme_directory.size, threshold)

DirectoryMatchesSize(theme_directory, icon_size, icon_scale) ==
    IF icon_scale # UnwrapOr(theme_directory.scale, DEFAULT_SCALE)
    THEN FALSE
    ELSE LET min_size == UnwrapOr(theme_directory.min_size, theme_directory.size)
             max_size == UnwrapOr(theme_directory.max_size, theme_directory.size)
             threshold == UnwrapOr(theme_directory.threshold, DEFAULT_THRESHOLD)
         IN  CASE theme_directory.type = "Fixed" ->
                    theme_directory.size = icon_size
               [] theme_directory.type = "Scalable" ->
                    min_size <= icon_size /\ icon_size <= max_size
               [] theme_directory.type = "Threshold" ->
                    /\ Sub16(theme_directory.size, threshold) <= icon_size
                    /\ icon_size <= Add16(theme_directory.size, threshold)

DirectorySizeDistanceToBandEdge(theme_directory, icon_size, icon_scale) ==
    LET min_size == UnwrapOr(theme_directory.min_size, theme_directory.size)
        max_size == UnwrapOr(theme_directory.max_size, theme_directory.size)
        threshold == UnwrapOr(theme_directory.threshold, DEFAULT_THRESHOLD)
        theme_directory_scale == UnwrapOr(theme_directory.scale, DEFAULT_SCALE)
        requested == Mul16(icon_size, icon_scale)
    IN  CASE theme_directory.type = "Fixed" ->
               Abs16(Sub16(Mul16(theme_directory.size, theme_directory_scale), requested))
          [] theme_directory.type = "Scalable" ->
               IF requested < Mul16(min_size, theme_directory_scale)
               THEN Sub16(Mul16(min_size, theme_directory_scale), requested)
               ELSE IF requested > Mul16(max_size, theme_directory_scale)
               THEN Sub16(requested, Mul16(max_size, theme_directory_scale))
               ELSE 0
          [] theme_directory.type = "Threshold" ->
               IF requested < Mul16(Sub16(theme_directory.size, threshold), theme_directory_scale)
               THEN Sub16(Mul16(Sub16(theme_directory.size, threshold), theme_directory_scale),
                          requested)
               ELSE IF requested > Mul16(Add16(theme_directory.size, threshold), theme_directory_scale)
               THEN Sub16(requested,
                          Mul16(Add16(theme_directory.size, threshold), theme_directory_scale))
               ELSE 0

DirectorySizeDistance(theme_directory, icon_size, icon_scale) ==
    LET min_size == UnwrapOr(theme_directory.min_size, theme_directory.size)
        max_size == UnwrapOr(theme_directory.max_size, theme_directory.size)
        threshold == UnwrapOr(theme_directory.threshold, DEFAULT_THRESHOLD)
        theme_directory_scale == UnwrapOr(theme_directory.scale, DEFAULT_SCALE)
        requested == Mul16(icon_size, icon_scale)
    IN  CASE theme_directory.type = "Fixed" ->
               Abs16(Sub16(Mul16(theme_directory.size, theme_directory_scale), requested))
          [] theme_directory.type = "Scalable" ->
               IF requested < Mul16(min_size, theme_directory_scale)
               THEN Sub16(Mul16(min_size, theme_directory_scale), requested)
               ELSE IF requested > Mul16(max_size, theme_directory_scale)
               THEN Sub16(requested, Mul16(max_size, theme_directory_scale))
               ELSE 0
          [] theme_directory.type = "Threshold" ->
               IF requested < Mul16(Sub16(theme_directory.size, threshold), theme_directory_scale)
               THEN Sub16(Mul16(theme_directory.size, theme_directory_scale), requested)
               ELSE IF requested > Mul16(Add16(theme_directory.size, threshold), theme_directory_scale)
               THEN Sub16(requested, Mul16(theme_directory.size, theme_directory_scale))
               ELSE 0

---------------------------------------------------------------------------
(* Paths: format!("{directory}/{theme_name}/{subdir}/{icon_name}.{extension}") *)
(* and format!("{directory}/{icon_name}.{extension}"); Path::exists()          *)

ThemedPath(directory, theme_name, subdir, icon_name, extension) ==
    directory \o "/" \o theme_name \o "/" \o subdir \o "/" \o icon_name \o "." \o extension

UnthemedPath(directory, icon_name, extension) ==
    directory \o "/" \o icon_name \o "." \o extension

Exists(file_path) == file_path \in files

---------------------------------------------------------------------------
(* Directory prober *)

(* The loop nest of lookup_icon (both phases run the same one): iteration k *)
(* is <<index into theme.directories, index into BASE_DIRECTORIES, index    *)
(* into ALLOWED_EXTENSIONS>>, subdirectories outermost, extensions          *)
(* innermost.                                                               *)
LoopCount(n_subdirs) == n_subdirs * Len(BASE_DIRECTORIES) * Len(ALLOWED_EXTENSIONS)

LoopNestBaseDirectoriesOuter(n_subdirs, k) ==
    LET ne == Len(ALLOWED_EXTENSIONS)
    IN  <<(((k - 1) \div ne) % n_subdirs) + 1,
          ((k - 1) \div (n_subdirs * ne)) + 1,
          ((k - 1) % ne) + 1>>

LoopNest(n_subdirs, k) ==
    LET nb == Len(BASE_DIRECTORIES)
        ne == Len(ALLOWED_EXTENSIONS)
    IN  <<((k - 1) \div (nb * ne)) + 1,
          (((k - 1) \div ne) % nb) + 1,
          ((k - 1) % ne) + 1>>

(* What one iteration of the loop nest works on: the subdirectory and the *)
(* path it formats.                                                       *)
Candidates(icon_name, theme) ==
    LET n_subdirs == Len(theme.directories)
    IN  [k \in 1..LoopCount(n_subdirs) |->
            LET it == LoopNest(n_subdirs, k)
                subdir == theme.directories[it[1]]
            IN  [subdir |-> subdir,
                 file_path |-> ThemedPath(BASE_DIRECTORIES[it[2]], theme.name, subdir.name,
                                          icon_name, ALLOWED_EXTENSIONS[it[3]])]]

(* The first loop nest, from iteration k on: return the first existing path *)
(* in a matching subdirectory.                                              *)
RECURSIVE ExactPhase(_, _, _, _)
ExactPhase(k, candidates, icon_size, icon_scale) ==
    IF k > Len(candidates)
    THEN None
    ELSE IF /\ DirectoryMatchesSize(candidates[k].subdir, icon_size, icon_scale)
            /\ Exists(candidates[k].file_path)
         THEN Some(candidates[k].file_path)
         ELSE ExactPhase(k + 1, candidates, icon_size, icon_scale)

(* The second loop nest, from iteration k on, with the running minimal_size *)
(* and closest_filename; then the test that follows the loops.              *)
RECURSIVE ClosestPhaseLastMinimum(_, _, _, _, _, _)
ClosestPhaseLastMinimum(k, minimal_size, closest_filename, candidates, icon_size, icon_scale) ==
    IF k > Len(candidates)
    THEN IF minimal_size < I16_MAX THEN Some(closest_filename) ELSE None
    ELSE LET directory_size_distance ==
                 DirectorySizeDistance(candidates[k].subdir, icon_size, icon_scale)
         IN  IF Exists(candidates[k].file_path) /\ directory_size_distance <= minimal_size
             THEN ClosestPhaseLastMinimum(k + 1, directory_size_distance,
                                          candidates[k].file_path,
                                          candidates, icon_size, icon_scale)
             ELSE ClosestPhaseLastMinimum(k + 1, minimal_size, closest_filename,
                                          candidates, icon_size, icon_scale)

RECURSIVE ClosestPhase(_, _, _, _, _, _)
ClosestPhase(k, minimal_size, closest_filename, candidates, icon_size, icon_scale) ==
    IF k > Len(candidates)
    THEN IF minimal_size < I16_MAX THEN Some(closest_filename) ELSE None
    ELSE LET directory_size_distance ==
                 DirectorySizeDistance(candidates[k].subdir, icon_size, icon_scale)
         IN  IF Exists(candidates[k].file_path) /\ directory_size_distance < minimal_size
             THEN ClosestPhase(k + 1, directory_size_distance, candidates[k].file_path,
                               candidates, icon_size, icon_scale)
             ELSE ClosestPhase(k + 1, minimal_size, closest_filename,
                               candidates, icon_size, icon_scale)

LookupIconSinglePhase(icon_name, icon_size, icon_scale, theme) ==
    ClosestPhase(1, I16_MAX, "", Candidates(icon_name, theme), icon_size, icon_scale)

LookupIcon(icon_name, icon_size, icon_scale, theme) ==
    LET candidates == Candidates(icon_name, theme)
        exact == ExactPhase(1, candidates, icon_size, icon_scale)
    IN  IF exact # None
        THEN exact
        ELSE ClosestPhase(1, I16_MAX, "", candidates, icon_size, icon_scale)

---------------------------------------------------------------------------
(* Unthemed prober: base directories outer, extensions inner *)

RECURSIVE LookupFallbackIconFrom(_, _)
LookupFallbackIconFrom(k, icon_name) ==
    LET ne == Len(ALLOWED_EXTENSIONS)
    IN  IF k > Len(BASE_DIRECTORIES) * ne
        THEN None
        ELSE LET file_path == UnthemedPath(BASE_DIRECTORIES[((k - 1) \div ne) + 1], icon_name,
                                           ALLOWED_EXTENSIONS[((k - 1) % ne) + 1])
             IN  IF Exists(file_path)
                 THEN Some(file_path)
                 ELSE LookupFallbackIconFrom(k + 1, icon_name)

LookupFallbackIcon(icon_name) == LookupFallbackIconFrom(1, icon_name)

---------------------------------------------------------------------------
(* Theme resolvers *)

RECURSIVE FindIconHelper(_, _, _, _)
RECURSIVE FindIconInParents(_, _, _, _, _)

(* The for loop over theme.inherits of find_icon_helper, from parent i on. *)
FindIconInParents(i, icon, icon_size, icon_scale, theme) ==
    IF i > Len(theme.inherits)
    THEN None
    ELSE LET f == FindIconHelper(icon, icon_size, icon_scale, theme.inherits[i])
         IN  IF f # None
             THEN f
             ELSE FindIconInParents(i + 1, icon, icon_size, icon_scale, theme)

FindIconHelperParentsFirst(icon, icon_size, icon_scale, theme) ==
    LET filename == FindIconInParents(1, icon, icon_size, icon_scale, theme)
    IN  IF filename # None
        THEN filename
        ELSE LookupIcon(icon, icon_size, icon_scale, theme)

FindIconHelper(icon, icon_size, icon_scale, theme) ==
    LET filename == LookupIcon(icon, icon_size, icon_scale, theme)
    IN  IF filename # None
        THEN filename
        ELSE FindIconInParents(1, icon, icon_size, icon_scale, theme)

(* The first for loop of find_best_icon_helper, from name i on. *)
RECURSIVE FindBestIconInTheme(_, _, _, _, _)
FindBestIconInTheme(i, icons, icon_size, icon_scale, theme) ==
    IF i > Len(icons)
    THEN None
    ELSE LET f == LookupIcon(icons[i], icon_size, icon_scale, theme)
         IN  IF f # None
             THEN f
             ELSE FindBestIconInTheme(i + 1, icons, icon_size, icon_scale, theme)

RECURSIVE FindBestIconHelper(_, _, _, _)
RECURSIVE FindBestIconInParents(_, _, _, _, _)

(* The second for loop of find_best_icon_helper, from parent i on. *)
FindBestIconInParents(i, icons, icon_size, icon_scale, theme) ==
    IF i > Len(theme.inherits)
    THEN None
    ELSE LET f == FindBestIconHelper(icons, icon_size, icon_scale, theme.inherits[i])
         IN  IF f # None
             THEN f
             ELSE FindBestIconInParents(i + 1, icons, icon_size, icon_scale, theme)

(* For each name in turn, the whole tree. *)
RECURSIVE FindBestIconByName(_, _, _, _, _)
FindBestIconByName(i, icons, icon_size, icon_scale, theme) ==
    IF i > Len(icons)
    THEN None
    ELSE LET f == FindIconHelper(icons[i], icon_size, icon_scale, theme)
         IN  IF f # None
             THEN f
             ELSE FindBestIconByName(i + 1, icons, icon_size, icon_scale, theme)

FindBestIconHelperNameMajor(icons, icon_size, icon_scale, theme) ==
    FindBestIconByName(1, icons, icon_size, icon_scale, theme)

FindBestIconHelper(icons, icon_size, icon_scale, theme) ==
    LET filename == FindBestIconInTheme(1, icons, icon_size, icon_scale, theme)
    IN  IF filename # None
        THEN filename
        ELSE FindBestIconInParents(1, icons, icon_size, icon_scale, theme)

---------------------------------------------------------------------------
(* Lookup API *)

fallback_theme_with_directories ==
    [name |-> "hicolor", inherits |-> <<>>,
     directories |-> <<[name |-> "a", size |-> 4, scale |-> None, type |-> "Fixed",
                        max_size |-> None, min_size |-> None, threshold |-> None]>>]

fallback_theme == [name |-> "hicolor", inherits |-> <<>>, directories |-> <<>>]

FindIcon(icon, icon_size, icon_scale, theme) ==
    LET first == FindIconHelper(icon, icon_size, icon_scale, theme)
    IN  IF first # None
        THEN first
        ELSE FindIconHelper(icon, icon_size, icon_scale, fallback_theme)

(* The for loop over icon_list of find_best_icon, from name i on. *)
RECURSIVE FindBestIconUnthemed(_, _)
FindBestIconUnthemed(i, icons) ==
    IF i > Len(icons)
    THEN None
    ELSE LET filename == LookupFallbackIcon(icons[i])
         IN  IF filename # None
             THEN filename
             ELSE FindBestIconUnthemed(i + 1, icons)

FindBestIconUnthemedFirst(icons, icon_size, icon_scale, theme) ==
    LET unthemed == FindBestIconUnthemed(1, icons)
    IN  IF unthemed # None
        THEN unthemed
        ELSE LET first == FindBestIconHelper(icons, icon_size, icon_scale, theme)
             IN  IF first # None
                 THEN first
                 ELSE FindBestIconHelper(icons, icon_size, icon_scale, fallback_theme)

FindBestIcon(icons, icon_size, icon_scale, theme) ==
    LET first == FindBestIconHelper(icons, icon_size, icon_scale, theme)
    IN  IF first # None
        THEN first
        ELSE LET second == FindBestIconHelper(icons, icon_size, icon_scale, fallback_theme)
             IN  IF second # None
                 THEN second
                 ELSE FindBestIconUnthemed(1, icons)

---------------------------------------------------------------------------
(* Bounds of the model and the inputs drawn within them *)

MaxSize == 4

MaxDirs == 2

MaxFiles == 3

MaxFindFiles == 2

MaxThemes == 3

ThemeDirectory(name, type, sz, sc, min_size, max_size, threshold) ==
    [name |-> name, size |-> sz, scale |-> sc, type |-> type,
     max_size |-> max_size, min_size |-> min_size, threshold |-> threshold]

Theme(name, inherits, directories) ==
    [name |-> name, inherits |-> inherits, directories |-> directories]

Types == {"Fixed", "Scalable", "Threshold"}

(* Non-negative i16 sizes: the small ones and the two largest. *)
Sizes == (0..MaxSize) \cup {I16_MAX - 1, I16_MAX}

OptionOf(S) == {None} \cup {Some(v) : v \in S}

SeqsUpTo(S, n) == UNION {[1..m -> S] : m \in 0..n}

SubsetsUpTo(S, n) == {F \in SUBSET S : Cardinality(F) <= n}

(* Size matcher: one directory, every combination of its size fields. *)
SizeDirectories ==
    {ThemeDirectory("a", t, sz, sc, mn, mx, th) :
        t \in Types, sz \in Sizes, sc \in OptionOf({1, 2}),
        mn \in OptionOf(Sizes), mx \in OptionOf(Sizes), th \in OptionOf({0, 1})}

(* Directory prober: the directories of one theme "T" (two of them may     *)
(* share a name) and a few of the candidate paths of icon "x".             *)
LookupPolicies ==
    { ThemeDirectory("", "Fixed", 4, None, None, None, None),
      ThemeDirectory("", "Fixed", 4, Some(2), None, None, None),
      ThemeDirectory("", "Threshold", 6, None, None, None, None),
      ThemeDirectory("", "Scalable", 8, Some(1), Some(6), Some(10), None),
      ThemeDirectory("", "Fixed", I16_MAX, None, None, None, None) }

SubdirNames == {"a", "b"}

LookupDirectories == {[p EXCEPT !.name = nm] : p \in LookupPolicies, nm \in SubdirNames}

LookupFiles ==
    {ThemedPath(BASE_DIRECTORIES[de[1]], "T", nm, "x", ALLOWED_EXTENSIONS[de[2]]) :
        de \in {<<1, 1>>, <<1, 2>>, <<3, 3>>}, nm \in SubdirNames}

(* Theme resolvers: trees of at most MaxThemes themes under a theme "A",   *)
(* every theme with a directory that matches size 4 exactly ("a", Fixed 4) *)
(* and one that does not ("b", Fixed 8).                                   *)
ThemeNames == {"A", "B", "hicolor"}

FindDirectories ==
    << ThemeDirectory("a", "Fixed", 4, None, None, None, None),
       ThemeDirectory("b", "Fixed", 8, None, None, None, None) >>

RECURSIVE ThemesOfSize(_)
RECURSIVE ForestsOfSize(_)

ThemesOfSize(n) ==
    {Theme(nm, f, FindDirectories) : nm \in ThemeNames, f \in ForestsOfSize(n - 1)}

ForestsOfSize(m) ==
    IF m = 0
    THEN {<<>>}
    ELSE UNION {{<<t>> \o f : t \in ThemesOfSize(k), f \in ForestsOfSize(m - k)} : k \in 1..m}

UserThemes ==
    {t \in UNION {ThemesOfSize(n) : n \in 1..MaxThemes} : t.name = "A"}

FindFiles ==
    {ThemedPath(BASE_DIRECTORIES[2], nm, d, "x", "svg") : nm \in ThemeNames, d \in {"a", "b"}}

IconLists == {<<"x">>, <<"y">>, <<"x", "y">>, <<"y", "x">>}

FindBestFiles ==
    {ThemedPath(BASE_DIRECTORIES[2], nm, "a", "x", "svg") : nm \in ThemeNames}
    \cup {ThemedPath(BASE_DIRECTORIES[2], nm, "b", "y", "svg") : nm \in ThemeNames}
    \cup {UnthemedPath(BASE_DIRECTORIES[de[1]], "x", ALLOWED_EXTENSIONS[de[2]]) :
            de \in {<<1, 2>>, <<1, 3>>, <<2, 1>>}}
    \cup {UnthemedPath(BASE_DIRECTORIES[3], "y", "png")}

---------------------------------------------------------------------------
(* Size matcher: the state machine *)

InitSize ==
    /\ \E d \in SizeDirectories : user_selected_theme = Theme("T", <<>>, <<d>>)
    /\ files = {}
    /\ icon_list = <<>>
    /\ size \in Sizes
    /\ scale \in {1, 2}
    /\ pc = "ready"
    /\ result = None

CallDirectoryMatchesSize ==
    /\ pc = "ready"
    /\ Len(user_selected_theme.directories) > 0
    /\ pc' = "directory_matches_size"
    /\ result' = DirectoryMatchesSize(user_selected_theme.directories[1], size, scale)
    /\ UNCHANGED <<user_selected_theme, files, icon_list, size, scale>>

CallDirectorySizeDistance ==
    /\ pc = "ready"
    /\ Len(user_selected_theme.directories) > 0
    /\ pc' = "directory_size_distance"
    /\ result' = DirectorySizeDistance(user_selected_theme.directories[1], size, scale)
    /\ UNCHANGED <<user_selected_theme, files, icon_list, size, scale>>

NextSize == CallDirectoryMatchesSize \/ CallDirectorySizeDistance

SpecSize == InitSize /\ [][NextSize]_vars

---------------------------------------------------------------------------
(* Directory prober: the state machine *)

InitLookup ==
    /\ \E ds \in SeqsUpTo(LookupDirectories, MaxDirs) :
            user_selected_theme = Theme("T", <<>>, ds)
    /\ files \in SubsetsUpTo(LookupFiles, MaxFiles)
    /\ icon_list = <<"x">>
    /\ size \in {0, 4}
    /\ scale \in {1, 2}
    /\ pc = "ready"
    /\ result = None

CallLookupIcon ==
    /\ pc = "ready"
    /\ Len(icon_list) > 0
    /\ pc' = "lookup_icon"
    /\ result' = LookupIcon(icon_list[1], size, scale, user_selected_theme)
    /\ UNCHANGED <<user_selected_theme, files, icon_list, size, scale>>

NextLookup == CallLookupIcon

SpecLookup == InitLookup /\ [][NextLookup]_vars

---------------------------------------------------------------------------
(* Single-name resolver and find_icon: the state machine *)

InitFind ==
    /\ user_selected_theme \in UserThemes
    /\ files \in SubsetsUpTo(FindFiles, MaxFindFiles)
    /\ icon_list = <<"x">>
    /\ size = 4
    /\ scale = 1
    /\ pc = "ready"
    /\ result = None

CallFindIconHelper ==
    /\ pc = "ready"
    /\ Len(icon_list) > 0
    /\ pc' = "find_icon_helper"
    /\ result' = FindIconHelper(icon_list[1], size, scale, user_selected_theme)
    /\ UNCHANGED <<user_selected_theme, files, icon_list, size, scale>>

CallFindIcon ==
    /\ pc = "ready"
    /\ Len(icon_list) > 0
    /\ pc' = "find_icon"
    /\ result' = FindIcon(icon_list[1], size, scale, user_selected_theme)
    /\ UNCHANGED <<user_selected_theme, files, icon_list, size, scale>>

NextFind == CallFindIconHelper \/ CallFindIcon

SpecFind == InitFind /\ [][NextFind]_vars

---------------------------------------------------------------------------
(* List resolver and find_best_icon: the state machine *)

InitFindBest ==
    /\ user_selected_theme \in UserThemes
    /\ files \in SubsetsUpTo(FindBestFiles, MaxFindFiles)
    /\ icon_list \in IconLists
    /\ size = 4
    /\ scale = 1
    /\ pc = "ready"
    /\ result = None

CallFindBestIconHelper ==
    /\ pc = "ready"
    /\ pc' = "find_best_icon_helper"
    /\ result' = FindBestIconHelper(icon_list, size, scale, user_selected_theme)
    /\ UNCHANGED <<user_selected_theme, files, icon_list, size, scale>>

CallFindBestIcon ==
    /\ pc = "ready"
    /\ pc' = "find_best_icon"
    /\ result' = FindBestIcon(icon_list, size, scale, user_selected_theme)
    /\ UNCHANGED <<user_selected_theme, files, icon_list, size, scale>>

NextFindBest == CallFindBestIconHelper \/ CallFindBestIcon

SpecFindBest == InitFindBest /\ [][NextFindBest]_vars

---------------------------------------------------------------------------
(* What the claims speak of, stated without the loops *)

(* A candidate of a theme: <<subdirectory index, base directory index, *)
(* extension index>>.                                                   *)
Triples(theme) ==
    {<<d, b, e>> : d \in 1..Len(theme.directories),
                   b \in 1..Len(BASE_DIRECTORIES),
                   e \in 1..Len(ALLOWED_EXTENSIONS)}

PathOf(tr, icon_name, theme) ==
    ThemedPath(BASE_DIRECTORIES[tr[2]], theme.name, theme.directories[tr[1]].name,
               icon_name, ALLOWED_EXTENSIONS[tr[3]])

(* The candidates whose path exists. *)
Existing(icon_name, theme) ==
    {tr \in Triples(theme) : PathOf(tr, icon_name, theme) \in files}

(* Iteration order: directories, then base directories, then extensions. *)
Before(t, u) ==
    \/ t[1] < u[1]
    \/ t[1] = u[1] /\ t[2] < u[2]
    \/ t[1] = u[1] /\ t[2] = u[2] /\ t[3] < u[3]

MatchesAt(tr, theme) == DirectoryMatchesSize(theme.directories[tr[1]], size, scale)

DistanceAt(tr, theme) == DirectorySizeDistance(theme.directories[tr[1]], size, scale)

ExistingMatches(icon_name, theme) ==
    {tr \in Existing(icon_name, theme) : MatchesAt(tr, theme)}

(* Matches and Distance over the integers, as the specification words them. *)
EffectiveScale(d) == IF d.scale = None THEN 1 ELSE d.scale[1]

EffectiveMin(d) == IF d.min_size = None THEN d.size ELSE d.min_size[1]

EffectiveMax(d) == IF d.max_size = None THEN d.size ELSE d.max_size[1]

EffectiveThreshold(d) == IF d.threshold = None THEN 2 ELSE d.threshold[1]

Magnitude(x) == IF x < 0 THEN 0 - x ELSE x

MatchesSpec(d, sz, sc) ==
    /\ sc = EffectiveScale(d)
    /\ \/ d.type = "Fixed" /\ d.size = sz
       \/ d.type = "Scalable" /\ EffectiveMin(d) <= sz /\ sz <= EffectiveMax(d)
       \/ /\ d.type = "Threshold"
          /\ d.size - EffectiveThreshold(d) <= sz
          /\ sz <= d.size + EffectiveThreshold(d)

DistanceSpec(d, sz, sc) ==
    LET ds == EffectiveScale(d)
        r == sz * sc
    IN  CASE d.type = "Fixed" -> Magnitude(d.size * ds - r)
          [] d.type = "Scalable" ->
                IF r < EffectiveMin(d) * ds THEN EffectiveMin(d) * ds - r
                ELSE IF r > EffectiveMax(d) * ds THEN r - EffectiveMax(d) * ds
                ELSE 0
          [] d.type = "Threshold" ->
                IF /\ (d.size - EffectiveThreshold(d)) * ds <= r
                   /\ r <= (d.size + EffectiveThreshold(d)) * ds
                THEN 0
                ELSE Magnitude(d.size * ds - r)

InI16(x) == 0 - I16_MAX - 1 <= x /\ x <= I16_MAX

(* Every intermediate value of the two functions fits in an i16. *)
NoOverflow(d, sz, sc) ==
    LET ds == EffectiveScale(d)
    IN  /\ InI16(d.size + EffectiveThreshold(d))
        /\ InI16(sz * sc)
        /\ InI16(d.size * ds)
        /\ InI16(EffectiveMin(d) * ds)
        /\ InI16(EffectiveMax(d) * ds)
        /\ InI16((d.size + EffectiveThreshold(d)) * ds)

(* The themes of a tree in depth-first pre-order. *)
RECURSIVE PreOrder(_)
RECURSIVE PreOrderForest(_)

PreOrder(theme) == <<theme>> \o PreOrderForest(theme.inherits)

PreOrderForest(forest) ==
    IF forest = <<>>
    THEN <<>>
    ELSE PreOrder(Head(forest)) \o PreOrderForest(Tail(forest))

Least(S) == CHOOSE i \in S : \A j \in S : i <= j

---------------------------------------------------------------------------
(* Size matcher *)

\* C4: directory_matches_size is false when the requested scale differs from the
\* directory's effective scale, and otherwise true exactly when Fixed: size equal;
\* Scalable: min <= size <= max; Threshold: size - threshold <= requested size <=
\* size + threshold, for every directory and every request.
C4_MatchesAsSpecified ==
    pc = "directory_matches_size" =>
        (result <=> MatchesSpec(user_selected_theme.directories[1], size, scale))

\* C5: directory_size_distance equals Fixed: |size*ds - r|; Scalable: the gap to the
\* nearer bound or 0; Threshold: 0 inside the band and |size*ds - r| outside it, for
\* every directory and every request.
C5_DistanceAsSpecified ==
    pc = "directory_size_distance" =>
        result = DistanceSpec(user_selected_theme.directories[1], size, scale)

(* Where no intermediate value leaves the i16 range the two functions are the *)
(* specified ones.                                                            *)
MatchesAsSpecifiedWithoutOverflow ==
    (/\ pc = "directory_matches_size"
     /\ NoOverflow(user_selected_theme.directories[1], size, scale)) =>
        (result <=> MatchesSpec(user_selected_theme.directories[1], size, scale))

DistanceAsSpecifiedWithoutOverflow ==
    (/\ pc = "directory_size_distance"
     /\ NoOverflow(user_selected_theme.directories[1], size, scale)) =>
        result = DistanceSpec(user_selected_theme.directories[1], size, scale)


(* The size fields of a directory, where present, are non-negative. *)
NonNegativeFields(d) ==
    /\ d.size >= 0
    /\ EffectiveScale(d) >= 0
    /\ EffectiveMin(d) >= 0
    /\ EffectiveMax(d) >= 0
    /\ EffectiveThreshold(d) >= 0

\* C11: for a directory whose size fields are non-negative and a non-negative
\* requested size and scale, directory_size_distance returns a non-negative integer,
\* also when the products size * scale leave the 16-bit signed range.
C11_DistanceNonNegative ==
    (/\ pc = "directory_size_distance"
     /\ NonNegativeFields(user_selected_theme.directories[1])
     /\ size >= 0
     /\ scale >= 0) =>
        result >= 0

---------------------------------------------------------------------------
(* Directory prober *)

\* C1: if an existing candidate lies in a directory that matches, lookup_icon
\* returns the path of an existing candidate in a matching directory, whatever the
\* distances of the existing candidates in directories that do not match.
C1_ExactBeforeClosest ==
    (/\ pc = "lookup_icon"
     /\ ExistingMatches(icon_list[1], user_selected_theme) # {}) =>
        \E tr \in ExistingMatches(icon_list[1], user_selected_theme) :
            result = Some(PathOf(tr, icon_list[1], user_selected_theme))

(* An existing candidate in a directory that does not match comes first and *)
(* is no farther than the match; the match is returned.                     *)
C1_Witness ==
    /\ pc = "lookup_icon"
    /\ \E m \in ExistingMatches(icon_list[1], user_selected_theme) :
       \E u \in Existing(icon_list[1], user_selected_theme) :
            /\ ~MatchesAt(u, user_selected_theme)
            /\ Before(u, m)
            /\ DistanceAt(u, user_selected_theme) <= DistanceAt(m, user_selected_theme)
            /\ user_selected_theme.directories[u[1]].name
                 # user_selected_theme.directories[m[1]].name
            /\ result = Some(PathOf(m, icon_list[1], user_selected_theme))

\* C8: when no existing candidate lies in a matching directory, the path lookup_icon
\* returns is that of an existing candidate of minimum distance, the first such in
\* iteration order.
C8_ClosestIsFirstMinimum ==
    (/\ pc = "lookup_icon"
     /\ ExistingMatches(icon_list[1], user_selected_theme) = {}
     /\ result # None) =>
        \E tr \in Existing(icon_list[1], user_selected_theme) :
            /\ result = Some(PathOf(tr, icon_list[1], user_selected_theme))
            /\ \A u \in Existing(icon_list[1], user_selected_theme) :
                  /\ DistanceAt(tr, user_selected_theme) <= DistanceAt(u, user_selected_theme)
                  /\ DistanceAt(u, user_selected_theme) = DistanceAt(tr, user_selected_theme)
                        => ~Before(u, tr)

(* An existing candidate in an earlier directory is farther, two later     *)
(* candidates tie at the minimum distance, and the earlier of the two is    *)
(* returned.                                                                *)
C8_Witness ==
    /\ pc = "lookup_icon"
    /\ ExistingMatches(icon_list[1], user_selected_theme) = {}
    /\ \E t, u, w \in Existing(icon_list[1], user_selected_theme) :
            /\ Before(t, u)
            /\ PathOf(t, icon_list[1], user_selected_theme)
                 # PathOf(u, icon_list[1], user_selected_theme)
            /\ user_selected_theme.directories[w[1]].name
                 # user_selected_theme.directories[t[1]].name
            /\ DistanceAt(t, user_selected_theme) = DistanceAt(u, user_selected_theme)
            /\ DistanceAt(w, user_selected_theme) > DistanceAt(t, user_selected_theme)
            /\ Before(w, t)
            /\ result = Some(PathOf(t, icon_list[1], user_selected_theme))

\* C9: lookup_icon returns absent if and only if no candidate path exists; whenever
\* a candidate path exists a path is returned, whatever its distance.
C9_AbsentIffNoCandidate ==
    pc = "lookup_icon" =>
        (result = None <=> Existing(icon_list[1], user_selected_theme) = {})

\* C10: in the exact phase the path returned is the first existing candidate in a
\* matching directory, in the order directories, then base directories, then
\* extensions.
C10_ExactIsFirstInOrder ==
    (/\ pc = "lookup_icon"
     /\ ExistingMatches(icon_list[1], user_selected_theme) # {}) =>
        \E tr \in ExistingMatches(icon_list[1], user_selected_theme) :
            /\ result = Some(PathOf(tr, icon_list[1], user_selected_theme))
            /\ \A u \in ExistingMatches(icon_list[1], user_selected_theme) : ~Before(u, tr)

(* A match in the first directory under a later base directory wins over a *)
(* match in the second directory under an earlier base directory.          *)
C10_Witness ==
    /\ pc = "lookup_icon"
    /\ \E t, u \in ExistingMatches(icon_list[1], user_selected_theme) :
            /\ t[1] < u[1]
            /\ t[2] > u[2]
            /\ user_selected_theme.directories[t[1]].name
                 # user_selected_theme.directories[u[1]].name
            /\ result = Some(PathOf(t, icon_list[1], user_selected_theme))

---------------------------------------------------------------------------
(* Theme resolvers and lookup API *)

(* The positions, in pre-order, of the themes where lookup_icon finds icon. *)
ProbeHits(icon, theme) ==
    {i \in 1..Len(PreOrder(theme)) : LookupIcon(icon, size, scale, PreOrder(theme)[i]) # None}

\* C2: find_icon_helper returns the lookup_icon result of the first theme, in
\* depth-first pre-order, whose lookup_icon result is not absent, and absent iff
\* lookup_icon is absent for every theme of the tree.
C2_FirstThemeInPreOrder ==
    pc = "find_icon_helper" =>
        LET hits == ProbeHits(icon_list[1], user_selected_theme)
        IN  IF hits = {}
            THEN result = None
            ELSE result = LookupIcon(icon_list[1], size, scale,
                                     PreOrder(user_selected_theme)[Least(hits)])

(* The given theme holds the icon only in a directory that does not match, a *)
(* parent holds it in a matching one; the given theme's path is returned.    *)
C2_Witness ==
    /\ pc = "find_icon_helper"
    /\ Len(user_selected_theme.inherits) > 0
    /\ ExistingMatches(icon_list[1], user_selected_theme) = {}
    /\ Existing(icon_list[1], user_selected_theme) # {}
    /\ ExistingMatches(icon_list[1], user_selected_theme.inherits[1]) # {}
    /\ \E tr \in Existing(icon_list[1], user_selected_theme) :
            result = Some(PathOf(tr, icon_list[1], user_selected_theme))
    /\ \A tr \in Existing(icon_list[1], user_selected_theme.inherits[1]) :
            result # Some(PathOf(tr, icon_list[1], user_selected_theme.inherits[1]))

BestHits(icons, theme) ==
    {ij \in (1..Len(PreOrder(theme))) \X (1..Len(icons)) :
        LookupIcon(icons[ij[2]], size, scale, PreOrder(theme)[ij[1]]) # None}

\* C3: find_best_icon_helper tries every name of the list, in list order, at a theme
\* before it visits any parent: the result is the lookup_icon result of the first
\* theme in pre-order where some name is found, for the first such name of the list.
C3_NamesBeforeParents ==
    pc = "find_best_icon_helper" =>
        LET hits == BestHits(icon_list, user_selected_theme)
        IN  IF hits = {}
            THEN result = None
            ELSE \E ij \in hits :
                    /\ \A uv \in hits : ij[1] < uv[1] \/ (ij[1] = uv[1] /\ ij[2] <= uv[2])
                    /\ result = LookupIcon(icon_list[ij[2]], size, scale,
                                           PreOrder(user_selected_theme)[ij[1]])

(* The given theme lacks the first name and holds the second; its first parent *)
(* holds the first name in a matching directory; the second name's path in     *)
(* the given theme is returned.                                                *)
C3_Witness ==
    /\ pc = "find_best_icon_helper"
    /\ Len(icon_list) = 2
    /\ Len(user_selected_theme.inherits) > 0
    /\ Existing(icon_list[1], user_selected_theme) = {}
    /\ ExistingMatches(icon_list[1], user_selected_theme.inherits[1]) # {}
    /\ user_selected_theme.inherits[1].name # user_selected_theme.name
    /\ \E tr \in Existing(icon_list[2], user_selected_theme) :
            result = Some(PathOf(tr, icon_list[2], user_selected_theme))

(* The unthemed candidates: <<name position, base directory index, extension *)
(* index>> of the existing paths {base directory}/{name}.{extension}.         *)
UnthemedExisting(icons) ==
    {nbe \in (1..Len(icons)) \X (1..Len(BASE_DIRECTORIES)) \X (1..Len(ALLOWED_EXTENSIONS)) :
        UnthemedPath(BASE_DIRECTORIES[nbe[2]], icons[nbe[1]], ALLOWED_EXTENSIONS[nbe[3]])
            \in files}

\* C7: find_best_icon returns the first non-absent of (1) find_best_icon_helper on
\* the given theme, (2) find_best_icon_helper on the built-in default theme, (3) the
\* first existing {root}/{name}.{ext}, names in list order, then roots, then
\* extensions png, svg, xpm; it is absent iff all three are.
C7_ThreeStages ==
    pc = "find_best_icon" =>
        LET first == FindBestIconHelper(icon_list, size, scale, user_selected_theme)
            second == FindBestIconHelper(icon_list, size, scale, fallback_theme)
            unthemed == UnthemedExisting(icon_list)
        IN  IF first # None THEN result = first
            ELSE IF second # None THEN result = second
            ELSE IF unthemed = {} THEN result = None
            ELSE \E t \in unthemed :
                    /\ \A u \in unthemed : ~Before(u, t)
                    /\ result = Some(UnthemedPath(BASE_DIRECTORIES[t[2]], icon_list[t[1]],
                                                  ALLOWED_EXTENSIONS[t[3]]))

(* No theme holds any of the names; both names exist unthemed, the second *)
(* under an earlier base directory; the first name's path is returned.    *)
C7_Witness ==
    /\ pc = "find_best_icon"
    /\ BestHits(icon_list, user_selected_theme) = {}
    /\ \E t, u \in UnthemedExisting(icon_list) :
            /\ t[1] < u[1]
            /\ t[2] > u[2]
            /\ icon_list[t[1]] # icon_list[u[1]]
            /\ result = Some(UnthemedPath(BASE_DIRECTORIES[t[2]], icon_list[t[1]],
                                          ALLOWED_EXTENSIONS[t[3]]))

====
